---- MODULE Spec2Model ----
(***************************************************************************)
(* Dask serialization hooks of cudf_polars                                 *)
(* (python/cudf_polars/cudf_polars/experimental/dask_serialize.py).        *)
(*                                                                         *)
(* register() installs six hooks in the four dispatch tables of            *)
(* distributed (cuda_serialize, cuda_deserialize, dask_serialize,          *)
(* dask_deserialize).  A message carries one Column or DataFrame from a    *)
(* serialize hook, over the transport, to a deserialize hook.  The device  *)
(* path hands device handles through; the host path stages the data        *)
(* buffer through host memory with one blocking copy in each direction.    *)
(* The two host-path hooks are split at their blocking copy, which is      *)
(* where calls of different worker threads interleave.                     *)
(***************************************************************************)
EXTENDS Integers, Sequences, FiniteSets, TLC

\* ----------------------------------------------------------------- bounds

\* messages (hook calls of distinct worker threads) that can be in flight
NumMsgs == 2
\* longest device data buffer, in bytes
MaxLen == 2
\* largest byte value
MaxByte == 1
\* distinct metadata blobs
MaxMeta == 1
\* calls of register()
MaxRegister == 2
\* longest frame list a transport delivers
MaxFrames == 3

\* the frame count both deserialize paths assert (len(frames) == 2)
FrameCount == 2

Msgs == 1..NumMsgs
Bytes == 0..MaxByte
ByteSeqs == UNION {[1..n -> Bytes] : n \in 0..MaxLen}
Metas == 1..MaxMeta
Types == {"Column", "DataFrame"}
Modes == {"cuda", "dask"}
Directions == {"serialize", "deserialize"}

\* ------------------------------------------- device memory interface, frames

\* __cuda_array_interface__ descriptors: shape, strides (None is {}, a tuple t
\* is {t}) and typestr
NoCAI == [shape |-> <<>>, strides |-> {}, typestr |-> ""]

Shapes(n) == {<<>>, <<n>>, <<n, 1>>}

StridesSet == {{}, {<<1>>}, {<<2>>}}

TypeStrs == {"|u1", "<i4"}

CAIs(n) == [shape : Shapes(n), strides : StridesSet, typestr : TypeStrs]

\* a host byte sequence (bytes / memoryview): no __cuda_array_interface__
HostFrame(b) ==
    [kind |-> "host", ptr |-> 0, cai |-> NoCAI, depth |-> 0, bytes |-> b]

\* rmm.DeviceBuffer over device memory at ptr: what a UCX transfer delivers
DeviceBuffer(ptr, size) ==
    [kind |-> "DeviceBuffer", ptr |-> ptr,
     cai |-> [shape |-> <<size>>, strides |-> {}, typestr |-> "|u1"],
     depth |-> 0, bytes |-> <<>>]

\* hasattr(f, "__cuda_array_interface__"): true of rmm.DeviceBuffer and of
\* plc.gpumemoryview itself (dask_serialize reads gpudata.__cuda_array_interface__)
HasCAI(f) == f.kind \in {"gpumemoryview", "DeviceBuffer"}

\* plc.gpumemoryview(obj): a new view object over obj's memory; depth counts
\* the gpumemoryview layers around the owning object
gpumemoryview(f) ==
    [f EXCEPT !.kind = "gpumemoryview", !.depth = f.depth + 1]

\* a classifier that tests the handle's type, not the interface
frames_to_gpumemoryview_by_type(frames) ==
    [i \in 1..Len(frames) |->
        IF frames[i].kind = "gpumemoryview" THEN gpumemoryview(frames[i])
        ELSE frames[i]]

frames_to_gpumemoryview(frames) ==
    [i \in 1..Len(frames) |->
        IF HasCAI(frames[i]) THEN gpumemoryview(frames[i]) ELSE frames[i]]

\* ------------------------------------------------------- columnar objects

NoObj == [type |-> "none", meta |-> 0, ptr |-> 0, cai |-> NoCAI]

\* the Column / DataFrame values whose data buffer is the n bytes at ptr 1
Objects(n) ==
    {[type |-> t, meta |-> k, ptr |-> 1, cai |-> c] :
        t \in Types, k \in Metas, c \in CAIs(n)}

\* x.serialize() -> (header, (metadata, gpudata))
ObjSerialize(x) ==
    [header |-> x.type,
     frames |-> << HostFrame(<<x.meta>>),
                   [kind |-> "gpumemoryview", ptr |-> x.ptr, cai |-> x.cai,
                    depth |-> 1, bytes |-> <<>>] >>]

\* T.deserialize(header, frames) accepts header and frames
ObjDeserializable(T, header, frames) ==
    /\ header = T
    /\ Len(frames) = 2
    /\ frames[1].kind = "host"
    /\ Len(frames[1].bytes) = 1
    /\ frames[2].kind = "gpumemoryview"

\* T.deserialize(header, (metadata, gpudata)) -> T
ObjDeserialize(T, header, frames) ==
    [type |-> T, meta |-> frames[1].bytes[1], ptr |-> frames[2].ptr,
     cai |-> frames[2].cai]

\* ------------------------------------------------------------------ state

VARIABLES
    hookTable,       \* distributed's dispatch tables: key -> registered hook
    registerCalls,   \* number of register() calls so far
    registerReturn,  \* what the last register() call returned
    dev,             \* device memory: allocation (pointer) -> its bytes
    msgs             \* the messages: position, buffers, counters of each

vars == <<hookTable, registerCalls, registerReturn, dev, msgs>>

Keys == Directions \X Modes \X Types

NoHook == [fn |-> "none", for |-> "none", gen |-> 0]

NoWire == [foreign |-> FALSE, count |-> 0]

InitMsg(x, b) ==
    [pc |-> "request", path |-> "none", hook |-> "none", x |-> x, orig |-> b,
     header |-> "none", frames |-> <<>>, wire |-> NoWire, args |-> <<>>,
     result |-> NoObj, err |-> "none", logged |-> 0, d2h |-> 0, h2d |-> 0,
     objSer |-> 0, objDeser |-> 0]

OffMsg == [InitMsg(NoObj, <<>>) EXCEPT !.pc = "off"]

\* one message to send; any object over any device buffer content
Init ==
    /\ hookTable = [k \in Keys |-> NoHook]
    /\ registerCalls = 0
    /\ registerReturn = "unset"
    /\ \E b \in ByteSeqs : \E x \in Objects(Len(b)) :
        /\ dev = <<b>>
        /\ msgs = [m \in Msgs |-> IF m = 1 THEN InitMsg(x, b) ELSE OffMsg]

SharedBytes == [i \in 1..MaxLen |-> i % (MaxByte + 1)]

\* the objects over a flat byte buffer of MaxLen bytes, of any strides
FlatObjects ==
    {x \in Objects(MaxLen) :
        x.meta = 1 /\ Len(x.cai.shape) = 1 /\ x.cai.typestr = "|u1"}

\* every worker sends the same object, whose data buffer they share
InitConcurrent ==
    /\ hookTable = [k \in Keys |-> NoHook]
    /\ registerCalls = 0
    /\ registerReturn = "unset"
    /\ \E x \in FlatObjects :
        /\ dev = <<SharedBytes>>
        /\ msgs = [m \in Msgs |-> InitMsg(x, SharedBytes)]

\* --------------------------------------------------------- device runtime

\* rmm.DeviceBuffer(ptr=ptr, size=nbytes).copy_to_host(): the first nbytes
\* bytes of the allocation at ptr, as a new host byte sequence
copy_to_host(devmem, ptr, nbytes) == SubSeq(devmem[ptr], 1, nbytes)

\* an allocator that hands out the most recent allocation again
to_device_reusing(devmem, b) ==
    IF Len(devmem) > 1
    THEN [ptr |-> Len(devmem), dev |-> [devmem EXCEPT ![Len(devmem)] = b]]
    ELSE [ptr |-> Len(devmem) + 1, dev |-> Append(devmem, b)]

\* rmm.DeviceBuffer.to_device(b): a newly allocated device buffer holding b
to_device(devmem, b) ==
    [ptr |-> Len(devmem) + 1, dev |-> Append(devmem, b)]

\* --------------------------------------------------------------- log_errors

\* an exception leaving a hook body
Raise(msg, e) == [msg EXCEPT !.err = e]

\* a serialize hook's locals are dropped with the exception
RaiseSer(msg, e) ==
    [msg EXCEPT !.err = e, !.header = "none", !.frames = <<>>]

\* a context manager that logs and suppresses, so the hook returns None
log_errors_suppressing(out) ==
    IF out.err = "none" THEN out
    ELSE [out EXCEPT !.logged = @ + 1,
                     !.pc = IF out.hook \in {"cuda_serialize", "dask_serialize"}
                            THEN "sent" ELSE "done"]

\* with log_errors(): an exception in the body is logged and propagates
log_errors(out) ==
    IF out.err = "none" THEN out
    ELSE [out EXCEPT !.logged = @ + 1, !.pc = "failed"]

\* ------------------------------------------------------------------- hooks

\* @cuda_serialize.register((Column, DataFrame))
cuda_serialize(msg, serOk) ==
    LET entered == [msg EXCEPT !.path = "cuda", !.hook = "cuda_serialize",
                               !.objSer = @ + 1]
        s == ObjSerialize(msg.x)
    IN  log_errors(
            IF ~serOk THEN RaiseSer(entered, "SerializeFailure")
            ELSE [entered EXCEPT !.pc = "sent", !.header = s.header,
                                 !.frames = s.frames])

\* @cuda_deserialize.register(DataFrame), @cuda_deserialize.register(Column)
cuda_deserialize(T, msg, objOk) ==
    LET frames == frames_to_gpumemoryview(msg.frames)
        entered == [msg EXCEPT !.hook = "cuda_deserialize", !.args = frames]
    IN  log_errors(
            IF Len(frames) # FrameCount
            THEN Raise(entered, "AssertionError")
            ELSE IF ~objOk \/ ~ObjDeserializable(T, msg.header, frames)
            THEN Raise([entered EXCEPT !.objDeser = @ + 1],
                       "ReconstructionFailure")
            ELSE [entered EXCEPT !.objDeser = @ + 1, !.pc = "done",
                     !.result = ObjDeserialize(T, msg.header, frames)])

\* the strides assertion left out
dask_serialize_check_no_strides(msg, serOk) ==
    LET entered == [msg EXCEPT !.path = "dask", !.hook = "dask_serialize",
                               !.objSer = @ + 1]
        s == ObjSerialize(msg.x)
        cai == s.frames[2].cai
    IN  log_errors(
            IF ~serOk THEN RaiseSer(entered, "SerializeFailure")
            ELSE IF Len(cai.shape) # 1
            THEN RaiseSer(entered, "AssertionError")
            ELSE IF cai.typestr # "|u1"
            THEN RaiseSer(entered, "AssertionError")
            ELSE [entered EXCEPT !.pc = "d2h", !.header = s.header,
                                 !.frames = s.frames])

\* @dask_serialize.register((Column, DataFrame)), up to the copy:
\* x.serialize() and the three contiguity assertions
dask_serialize_check(msg, serOk) ==
    LET entered == [msg EXCEPT !.path = "dask", !.hook = "dask_serialize",
                               !.objSer = @ + 1]
        s == ObjSerialize(msg.x)
        cai == s.frames[2].cai
    IN  log_errors(
            IF ~serOk THEN RaiseSer(entered, "SerializeFailure")
            ELSE IF Len(cai.shape) # 1
            THEN RaiseSer(entered, "AssertionError")
            ELSE IF ~(cai.strides = {} \/ cai.strides = {<<1>>})
            THEN RaiseSer(entered, "AssertionError")
            ELSE IF cai.typestr # "|u1"
            THEN RaiseSer(entered, "AssertionError")
            ELSE [entered EXCEPT !.pc = "d2h", !.header = s.header,
                                 !.frames = s.frames])

\* the returned pair in the wrong order
dask_serialize_copy_swapped(msg, devmem, copyOk) ==
    LET metadata == msg.frames[1]
        gpudata == msg.frames[2]
        nbytes == gpudata.cai.shape[1]
        tried == [msg EXCEPT !.d2h = @ + 1]
    IN  log_errors(
            IF ~copyOk THEN RaiseSer(tried, "RuntimeCopyFailure")
            ELSE [tried EXCEPT !.pc = "sent",
                     !.frames = << HostFrame(copy_to_host(devmem, gpudata.ptr,
                                                          nbytes)),
                                   metadata >>])

\* the copy one byte short
dask_serialize_copy_short(msg, devmem, copyOk) ==
    LET metadata == msg.frames[1]
        gpudata == msg.frames[2]
        nbytes == gpudata.cai.shape[1] - 1
        tried == [msg EXCEPT !.d2h = @ + 1]
    IN  log_errors(
            IF ~copyOk THEN RaiseSer(tried, "RuntimeCopyFailure")
            ELSE [tried EXCEPT !.pc = "sent",
                     !.frames = << metadata,
                                   HostFrame(copy_to_host(devmem, gpudata.ptr,
                                                          nbytes)) >>])

\* @dask_serialize.register((Column, DataFrame)), from the copy on:
\* nbytes = cai["shape"][0], one device-to-host copy, the returned pair
dask_serialize_copy(msg, devmem, copyOk) ==
    LET metadata == msg.frames[1]
        gpudata == msg.frames[2]
        nbytes == gpudata.cai.shape[1]
        tried == [msg EXCEPT !.d2h = @ + 1]
    IN  log_errors(
            IF ~copyOk THEN RaiseSer(tried, "RuntimeCopyFailure")
            ELSE [tried EXCEPT !.pc = "sent",
                     !.frames = << metadata,
                                   HostFrame(copy_to_host(devmem, gpudata.ptr,
                                                          nbytes)) >>])

\* at least two frames accepted, the rest ignored
dask_deserialize_check_at_least(msg) ==
    LET entered == [msg EXCEPT !.hook = "dask_deserialize"]
    IN  log_errors(
            IF Len(msg.frames) < FrameCount
            THEN Raise(entered, "AssertionError")
            ELSE [entered EXCEPT !.pc = "h2d"])

\* @dask_deserialize.register(DataFrame), @dask_deserialize.register(Column),
\* up to the copy: assert len(frames) == 2
dask_deserialize_check(msg) ==
    LET entered == [msg EXCEPT !.hook = "dask_deserialize"]
    IN  log_errors(
            IF Len(msg.frames) # FrameCount
            THEN Raise(entered, "AssertionError")
            ELSE [entered EXCEPT !.pc = "h2d"])

\* frames[0] copied to the device in place of frames[1]
dask_deserialize_copy_first(T, msg, devmem, copyOk, objOk) ==
    LET tried == [msg EXCEPT !.h2d = @ + 1]
        a == to_device(devmem, msg.frames[1].bytes)
        frames == << msg.frames[1],
                     gpumemoryview(DeviceBuffer(a.ptr,
                                                Len(msg.frames[1].bytes))) >>
        copied == [tried EXCEPT !.args = frames, !.objDeser = @ + 1]
    IN  IF ~copyOk
        THEN [msg |-> log_errors(Raise(tried, "RuntimeCopyFailure")),
              dev |-> devmem]
        ELSE IF ~objOk \/ ~ObjDeserializable(T, msg.header, frames)
        THEN [msg |-> log_errors(Raise(copied, "ReconstructionFailure")),
              dev |-> a.dev]
        ELSE [msg |-> log_errors([copied EXCEPT !.pc = "done",
                         !.result = ObjDeserialize(T, msg.header, frames)]),
              dev |-> a.dev]

\* both frames copied to the device
dask_deserialize_copy_both(T, msg, devmem, copyOk, objOk) ==
    LET tried == [msg EXCEPT !.h2d = @ + 2]
        a == to_device(devmem, msg.frames[2].bytes)
        frames == << msg.frames[1],
                     gpumemoryview(DeviceBuffer(a.ptr,
                                                Len(msg.frames[2].bytes))) >>
        copied == [tried EXCEPT !.args = frames, !.objDeser = @ + 1]
    IN  IF ~copyOk
        THEN [msg |-> log_errors(Raise(tried, "RuntimeCopyFailure")),
              dev |-> devmem]
        ELSE IF ~objOk \/ ~ObjDeserializable(T, msg.header, frames)
        THEN [msg |-> log_errors(Raise(copied, "ReconstructionFailure")),
              dev |-> a.dev]
        ELSE [msg |-> log_errors([copied EXCEPT !.pc = "done",
                         !.result = ObjDeserialize(T, msg.header, frames)]),
              dev |-> a.dev]

\* @dask_deserialize.register(DataFrame), @dask_deserialize.register(Column),
\* from the copy on: frames[1] copied to a new device buffer, wrapped, and
\* T.deserialize(header, (frames[0], wrapped))
dask_deserialize_copy(T, msg, devmem, copyOk, objOk) ==
    LET tried == [msg EXCEPT !.h2d = @ + 1]
        a == to_device(devmem, msg.frames[2].bytes)
        frames == << msg.frames[1],
                     gpumemoryview(DeviceBuffer(a.ptr,
                                                Len(msg.frames[2].bytes))) >>
        copied == [tried EXCEPT !.args = frames, !.objDeser = @ + 1]
    IN  IF ~copyOk
        THEN [msg |-> log_errors(Raise(tried, "RuntimeCopyFailure")),
              dev |-> devmem]
        ELSE IF ~objOk \/ ~ObjDeserializable(T, msg.header, frames)
        THEN [msg |-> log_errors(Raise(copied, "ReconstructionFailure")),
              dev |-> a.dev]
        ELSE [msg |-> log_errors([copied EXCEPT !.pc = "done",
                         !.result = ObjDeserialize(T, msg.header, frames)]),
              dev |-> a.dev]

\* ------------------------------------------------------------ registration

\* Dispatch.register(types)(fn): the entry of every listed type is replaced
RegisterHook(table, dir, mode, types, fn, for, gen) ==
    [k \in Keys |->
        IF k[1] = dir /\ k[2] = mode /\ k[3] \in types
        THEN [fn |-> fn, for |-> for, gen |-> gen]
        ELSE table[k]]

\* the Column host-path deserialize hook forgotten
register_incomplete(table, gen) ==
    LET t1 == RegisterHook(table, "serialize", "cuda", {"Column", "DataFrame"},
                           "cuda_serialize", "any", gen)
        t2 == RegisterHook(t1, "deserialize", "cuda", {"DataFrame"},
                           "cuda_deserialize", "DataFrame", gen)
        t3 == RegisterHook(t2, "deserialize", "cuda", {"Column"},
                           "cuda_deserialize", "Column", gen)
        t4 == RegisterHook(t3, "serialize", "dask", {"Column", "DataFrame"},
                           "dask_serialize", "any", gen)
        t5 == RegisterHook(t4, "deserialize", "dask", {"DataFrame"},
                           "dask_deserialize", "DataFrame", gen)
    IN  t5

\* register(): the six decorated definitions, in source order
register(table, gen) ==
    LET t1 == RegisterHook(table, "serialize", "cuda", {"Column", "DataFrame"},
                           "cuda_serialize", "any", gen)
        t2 == RegisterHook(t1, "deserialize", "cuda", {"DataFrame"},
                           "cuda_deserialize", "DataFrame", gen)
        t3 == RegisterHook(t2, "deserialize", "cuda", {"Column"},
                           "cuda_deserialize", "Column", gen)
        t4 == RegisterHook(t3, "serialize", "dask", {"Column", "DataFrame"},
                           "dask_serialize", "any", gen)
        t5 == RegisterHook(t4, "deserialize", "dask", {"DataFrame"},
                           "dask_deserialize", "DataFrame", gen)
        t6 == RegisterHook(t5, "deserialize", "dask", {"Column"},
                           "dask_deserialize", "Column", gen)
    IN  t6

\* -------------------------------------------------------------- transport

\* what a transport may deliver of a sent frame list: the frames as they are,
\* the device frames as rmm.DeviceBuffer (device path), or a wrong count
Wires(path) ==
    {[foreign |-> FALSE, count |-> n] : n \in 0..MaxFrames}
    \cup (IF path = "cuda" THEN {[foreign |-> TRUE, count |-> FrameCount]}
          ELSE {})

AsDeviceBuffer(f, devmem) ==
    IF HasCAI(f) THEN DeviceBuffer(f.ptr, Len(devmem[f.ptr])) ELSE f

Deliver(frames, wire, devmem) ==
    [i \in 1..(IF frames = <<>> THEN 0 ELSE wire.count) |->
        LET f == frames[IF i <= Len(frames) THEN i ELSE Len(frames)]
        IN  IF wire.foreign THEN AsDeviceBuffer(f, devmem) ELSE f]

\* ---------------------------------------------------------------- actions

Register ==
    /\ registerCalls < MaxRegister
    /\ hookTable' = register(hookTable, registerCalls + 1)
    /\ registerCalls' = registerCalls + 1
    /\ registerReturn' = "None"
    /\ UNCHANGED <<dev, msgs>>

\* the hook the framework dispatches to
Hook(dir, mode, type) == hookTable[<<dir, mode, type>>]

CudaSerialize(m, serOk) ==
    /\ msgs[m].pc = "request"
    /\ Hook("serialize", "cuda", msgs[m].x.type).fn = "cuda_serialize"
    /\ msgs' = [msgs EXCEPT ![m] = cuda_serialize(msgs[m], serOk)]
    /\ UNCHANGED <<hookTable, registerCalls, registerReturn, dev>>

DaskSerializeCheck(m, serOk) ==
    /\ msgs[m].pc = "request"
    /\ Hook("serialize", "dask", msgs[m].x.type).fn = "dask_serialize"
    /\ msgs' = [msgs EXCEPT ![m] = dask_serialize_check(msgs[m], serOk)]
    /\ UNCHANGED <<hookTable, registerCalls, registerReturn, dev>>

DaskSerializeCopy(m, copyOk) ==
    /\ msgs[m].pc = "d2h"
    /\ msgs' = [msgs EXCEPT ![m] = dask_serialize_copy(msgs[m], dev, copyOk)]
    /\ UNCHANGED <<hookTable, registerCalls, registerReturn, dev>>

Transport(m, wire) ==
    /\ msgs[m].pc = "sent"
    /\ wire \in Wires(msgs[m].path)
    /\ msgs' = [msgs EXCEPT ![m].pc = "received", ![m].wire = wire,
                            ![m].frames = Deliver(msgs[m].frames, wire, dev)]
    /\ UNCHANGED <<hookTable, registerCalls, registerReturn, dev>>

CudaDeserialize(m, objOk) ==
    /\ msgs[m].pc = "received"
    /\ msgs[m].path = "cuda"
    /\ LET h == Hook("deserialize", "cuda", msgs[m].header)
       IN  /\ h.fn = "cuda_deserialize"
           /\ msgs' = [msgs EXCEPT ![m] = cuda_deserialize(h.for, msgs[m], objOk)]
    /\ UNCHANGED <<hookTable, registerCalls, registerReturn, dev>>

DaskDeserializeCheck(m) ==
    /\ msgs[m].pc = "received"
    /\ msgs[m].path = "dask"
    /\ Hook("deserialize", "dask", msgs[m].header).fn = "dask_deserialize"
    /\ msgs' = [msgs EXCEPT ![m] = dask_deserialize_check(msgs[m])]
    /\ UNCHANGED <<hookTable, registerCalls, registerReturn, dev>>

DaskDeserializeCopy(m, copyOk, objOk) ==
    /\ msgs[m].pc = "h2d"
    /\ LET h == Hook("deserialize", "dask", msgs[m].header)
           r == dask_deserialize_copy(h.for, msgs[m], dev, copyOk, objOk)
       IN  /\ h.fn = "dask_deserialize"
           /\ msgs' = [msgs EXCEPT ![m] = r.msg]
           /\ dev' = r.dev
    /\ UNCHANGED <<hookTable, registerCalls, registerReturn>>

Next ==
    \/ Register
    \/ \E m \in Msgs, serOk \in BOOLEAN : CudaSerialize(m, serOk)
    \/ \E m \in Msgs, serOk \in BOOLEAN : DaskSerializeCheck(m, serOk)
    \/ \E m \in Msgs, copyOk \in BOOLEAN : DaskSerializeCopy(m, copyOk)
    \/ \E m \in Msgs : \E wire \in Wires(msgs[m].path) : Transport(m, wire)
    \/ \E m \in Msgs, objOk \in BOOLEAN : CudaDeserialize(m, objOk)
    \/ \E m \in Msgs : DaskDeserializeCheck(m)
    \/ \E m \in Msgs, copyOk \in BOOLEAN, objOk \in BOOLEAN :
          DaskDeserializeCopy(m, copyOk, objOk)

Spec == Init /\ [][Next]_vars

SpecConcurrent == InitConcurrent /\ [][Next]_vars

\* ------------------------------------------------------------- properties

\* an object's value: its kind, its metadata and the bytes of its data buffer
Value(o) == [type |-> o.type, meta |-> o.meta, bytes |-> dev[o.ptr]]

\* the value of the object a message was asked to send
Sent(g) == [type |-> g.x.type, meta |-> g.x.meta, bytes |-> g.orig]

\* rank 1, strides unset or (1,), raw unsigned bytes
Contiguous(c) ==
    /\ Len(c.shape) = 1
    /\ c.strides \in {{}, {<<1>>}}
    /\ c.typestr = "|u1"

SerializeHooks == {"cuda_serialize", "dask_serialize"}

DeserializeHooks == {"cuda_deserialize", "dask_deserialize"}

\* C1: on both paths, the deserialize hook applied to what the serialize hook
\* returned yields an object equal in value to the one sent, and a frame list
\* delivered with its two frames is never rejected by the frame-count check.
RoundTripIdentity ==
    \A m \in Msgs :
        LET g == msgs[m]
        IN  /\ g.pc = "done" => Value(g.result) = Sent(g)
            /\ (g.hook \in DeserializeHooks /\ g.err = "AssertionError")
                   => g.wire.count # 2

RoundTripDone ==
    \E m \in Msgs :
        /\ msgs[m].pc = "done"
        /\ msgs[m].path = "cuda"
        /\ msgs[m].wire.foreign
        /\ Len(msgs[m].orig) > 0
        /\ Value(msgs[m].result) = Sent(msgs[m])

\* C2: a deserialize hook (either path, Column or DataFrame) given a frame
\* list whose length is not 2 ends in an error; the object's deserialize is
\* not called, nothing is copied to the device and no object is returned.
WrongFrameCountRejected ==
    \A m \in Msgs :
        LET g == msgs[m]
        IN  (g.hook \in DeserializeHooks /\ Len(g.frames) # 2)
                => /\ g.pc = "failed"
                   /\ g.err = "AssertionError"
                   /\ g.objDeser = 0
                   /\ g.h2d = 0
                   /\ g.result = NoObj

ThreeFramesRejected ==
    \E m \in Msgs :
        /\ msgs[m].hook = "dask_deserialize"
        /\ msgs[m].x.type = "Column"
        /\ Len(msgs[m].frames) = 3
        /\ msgs[m].pc = "failed"

\* C3: a serialize hook that returns, returns exactly 2 buffers: first the
\* object's metadata buffer, then its data buffer (device path) or the host
\* copy of that data buffer (host path).
SerializeTwoBuffersInOrder ==
    \A m \in Msgs :
        LET g == msgs[m]
        IN  g.pc = "sent"
                => /\ Len(g.frames) = 2
                   /\ g.frames[1] = HostFrame(<<g.x.meta>>)
                   /\ g.path = "cuda"
                          => /\ g.frames[2].kind = "gpumemoryview"
                             /\ g.frames[2].ptr = g.x.ptr
                             /\ g.frames[2].cai = g.x.cai
                   /\ g.path = "dask" => g.frames[2] = HostFrame(g.orig)

HostSerializeReturned ==
    \E m \in Msgs :
        /\ msgs[m].pc = "sent"
        /\ msgs[m].path = "dask"
        /\ Len(msgs[m].frames) = 2
        /\ Len(msgs[m].frames[2].bytes) > 0

\* C4: host-path serialize of an object whose data buffer is not rank 1, or
\* has strides other than unset or (1,), or is not raw unsigned bytes, raises
\* before any device-to-host copy; a copy is started only after all three
\* checks passed.
ContiguityRejectedBeforeCopy ==
    \A m \in Msgs :
        LET g == msgs[m]
        IN  /\ (g.path = "dask" /\ ~Contiguous(g.x.cai))
                   => /\ g.pc = "failed"
                      /\ g.hook = "dask_serialize"
                      /\ g.err \in {"AssertionError", "SerializeFailure"}
                      /\ g.d2h = 0
            /\ (g.pc = "d2h" \/ g.d2h > 0) => Contiguous(g.x.cai)

StridedBufferRejected ==
    \E m \in Msgs :
        /\ msgs[m].path = "dask"
        /\ msgs[m].x.cai.strides = {<<2>>}
        /\ Len(msgs[m].x.cai.shape) = 1
        /\ msgs[m].x.cai.typestr = "|u1"
        /\ msgs[m].err = "AssertionError"
        /\ msgs[m].d2h = 0

\* C5: after host-path serialize and host-path deserialize of a valid data
\* buffer of n bytes, the new device buffer holds exactly n bytes, byte i
\* equal to byte i of the original, and the original buffer is as it was.
HostPathByteExact ==
    \A m \in Msgs :
        LET g == msgs[m]
        IN  /\ g.pc # "off" => dev[g.x.ptr] = g.orig
            /\ (g.path = "dask" /\ g.pc = "done")
                   => /\ Len(dev[g.result.ptr]) = Len(g.orig)
                      /\ \A i \in 1..Len(g.orig) :
                             dev[g.result.ptr][i] = g.orig[i]

HostRoundTripDone ==
    \E m \in Msgs :
        /\ msgs[m].path = "dask"
        /\ msgs[m].pc = "done"
        /\ Len(msgs[m].orig) = 2
        /\ msgs[m].orig[1] # msgs[m].orig[2]
        /\ dev[msgs[m].result.ptr] = msgs[m].orig

\* C6 as stated: the classifier returns a native handle unchanged, without
\* wrapping it again, and wraps a foreign device-memory-interface object in a
\* handle over the same memory.
ClassifierKeepsNativeHandle ==
    \A m \in Msgs :
        LET g == msgs[m]
        IN  g.hook = "cuda_deserialize"
                => \A i \in 1..Len(g.frames) :
                       /\ g.frames[i].kind = "gpumemoryview"
                              => g.args[i] = g.frames[i]
                       /\ g.frames[i].kind = "DeviceBuffer"
                              => /\ g.args[i].kind = "gpumemoryview"
                                 /\ g.args[i].ptr = g.frames[i].ptr
                                 /\ g.args[i].cai = g.frames[i].cai

\* the same handle up to the number of gpumemoryview layers
SameMemory(a, b) == [a EXCEPT !.depth = 0] = [b EXCEPT !.depth = 0]

\* C6 amended: the classifier wraps every frame that exposes the
\* device-memory-interface, a native handle included, in a new handle over
\* the same memory (same pointer, shape, strides and type string), and passes
\* every other frame through unchanged; classifying a classified list again
\* changes no pointer and no length, it only adds a layer.
ClassifierWrapsSameMemory ==
    \A m \in Msgs :
        LET g == msgs[m]
            again == frames_to_gpumemoryview(g.args)
        IN  g.hook = "cuda_deserialize"
                => /\ Len(g.args) = Len(g.frames)
                   /\ \A i \in 1..Len(g.frames) :
                          /\ HasCAI(g.frames[i])
                                 => /\ g.args[i].kind = "gpumemoryview"
                                    /\ g.args[i].ptr = g.frames[i].ptr
                                    /\ g.args[i].cai = g.frames[i].cai
                                    /\ g.args[i].depth = g.frames[i].depth + 1
                          /\ ~HasCAI(g.frames[i]) => g.args[i] = g.frames[i]
                          /\ SameMemory(again[i], g.args[i])

NativeHandleWrappedAgain ==
    \E m \in Msgs :
        /\ msgs[m].hook = "cuda_deserialize"
        /\ \E i \in 1..Len(msgs[m].frames) :
               /\ msgs[m].frames[i].kind = "gpumemoryview"
               /\ msgs[m].frames[i].depth = 1
               /\ msgs[m].args[i].depth = 2

\* C7: a failure inside any of the six hooks is logged once and leaves the
\* hook as an error: the hook returns no frames and no object, and no step
\* of the hook is run a second time.
ErrorsLoggedAndReraised ==
    \A m \in Msgs :
        LET g == msgs[m]
        IN  /\ g.err # "none"
                   => /\ g.pc = "failed"
                      /\ g.logged = 1
                      /\ g.result = NoObj
                      /\ g.hook \in SerializeHooks => g.frames = <<>>
            /\ g.pc = "failed" => g.err # "none"
            /\ g.err = "none" => g.logged = 0
            /\ g.objSer <= 1 /\ g.objDeser <= 1 /\ g.d2h <= 1 /\ g.h2d <= 1

CopyFailureLogged ==
    \E m \in Msgs :
        /\ msgs[m].hook = "dask_deserialize"
        /\ msgs[m].err = "RuntimeCopyFailure"
        /\ msgs[m].logged = 1
        /\ msgs[m].pc = "failed"

\* the hook register() installs under a key
Installed(k) ==
    [fn |-> IF k[2] = "cuda"
            THEN (IF k[1] = "serialize" THEN "cuda_serialize"
                  ELSE "cuda_deserialize")
            ELSE (IF k[1] = "serialize" THEN "dask_serialize"
                  ELSE "dask_deserialize"),
     for |-> IF k[1] = "serialize" THEN "any" ELSE k[3]]

\* C8: after one call of register() every key (direction, mode, type) has its
\* hook; after any further calls the keys are the same and each maps to a
\* hook of the same behaviour; register() returns None.
RegistrationCompleteIdempotent ==
    /\ registerCalls = 0 => \A k \in Keys : hookTable[k] = NoHook
    /\ registerCalls >= 1
           => /\ registerReturn = "None"
              /\ \A k \in Keys :
                     /\ hookTable[k].fn = Installed(k).fn
                     /\ hookTable[k].for = Installed(k).for
                     /\ hookTable[k].gen = registerCalls

RegisteredTwice ==
    /\ registerCalls >= 2
    /\ \A k \in Keys : hookTable[k].fn # "none" /\ hookTable[k].gen >= 2

\* C9: the device path copies nothing between host and device and hands on
\* the buffers it was given; a host-path serialize that returns has made one
\* device-to-host copy of the whole data buffer and passed the metadata
\* buffer through; a host-path deserialize that returns has made one
\* host-to-device copy, of frame 1, into a new device buffer, and passed
\* frame 0 through.
CopyPlacement ==
    \A m \in Msgs :
        LET g == msgs[m]
        IN  /\ g.path = "cuda"
                   => /\ g.d2h = 0 /\ g.h2d = 0
                      /\ g.pc = "sent"
                             => /\ g.frames[2].kind = "gpumemoryview"
                                /\ g.frames[2].ptr = g.x.ptr
                      /\ g.hook = "cuda_deserialize"
                             => \A i \in 1..Len(g.frames) :
                                    /\ g.args[i].ptr = g.frames[i].ptr
                                    /\ g.args[i].bytes = g.frames[i].bytes
            /\ (g.path = "dask" /\ g.pc \in {"sent", "received", "h2d"})
                   => g.d2h = 1 /\ g.h2d = 0
            /\ (g.path = "dask" /\ g.pc = "sent")
                   => /\ g.frames[1] = HostFrame(<<g.x.meta>>)
                      /\ g.frames[2].kind = "host"
                      /\ Len(g.frames[2].bytes) = Len(dev[g.x.ptr])
            /\ (g.path = "dask" /\ g.pc = "done")
                   => /\ g.d2h = 1 /\ g.h2d = 1
                      /\ g.args[1] = g.frames[1]
                      /\ g.args[2].kind = "gpumemoryview"
                      /\ g.args[2].ptr # g.x.ptr
                      /\ g.args[2].ptr \in 2..Len(dev)
                      /\ dev[g.args[2].ptr] = g.frames[2].bytes

OneCopyEachWay ==
    \E m \in Msgs :
        /\ msgs[m].path = "dask"
        /\ msgs[m].pc = "done"
        /\ msgs[m].d2h = 1
        /\ msgs[m].h2d = 1
        /\ msgs[m].args[2].ptr = 2

\* the device allocations a message's hooks have created
Allocated(g) ==
    IF g.path = "dask" /\ Len(g.args) = 2 THEN {g.args[2].ptr} ELSE {}

\* C10: in every interleaving, a step of one message's hook leaves the hook
\* table, every other message, and every existing device buffer as they were,
\* and the device buffer it allocates is no other message's; the hook table
\* is written by register() alone.
MessagesIndependent ==
    [][ /\ \A m \in Msgs :
               msgs'[m] # msgs[m]
                   => /\ hookTable' = hookTable
                      /\ \A n \in Msgs \ {m} : msgs'[n] = msgs[n]
                      /\ Len(dev') >= Len(dev)
                      /\ \A p \in 1..Len(dev) : dev'[p] = dev[p]
                      /\ \A n \in Msgs \ {m} :
                             /\ Allocated(msgs'[m]) \cap Allocated(msgs[n]) = {}
                             /\ msgs[n].x.ptr \notin Allocated(msgs'[m])
        /\ hookTable' # hookTable => msgs' = msgs /\ dev' = dev ]_vars

FailedBesideDone ==
    \E m \in Msgs, n \in Msgs :
        /\ m # n
        /\ msgs[m].pc = "failed"
        /\ msgs[m].path = "dask"
        /\ msgs[n].pc = "done"
        /\ msgs[n].path = "dask"

====
